---- MODULE Spec2Model ----
(***************************************************************************)
(* Model of rv's review-target resolution (src/review.rs git_review,       *)
(* src/main.rs main), the patch reassembly of src/git_helpers.rs           *)
(* (staged_diffs, diff_trees_to_expanded) and the serializer               *)
(* ExpandedCommit::get_xml_structure.                                      *)
(*                                                                         *)
(* Strings that the code only appends are sequences of tokens; paths are   *)
(* sequences of components, a component being a sequence of byte values,   *)
(* so that the two orders that meet in the code (the byte order in which   *)
(* the diff emits its deltas, the component order of BTreeSet<PathBuf>)    *)
(* are both computed.                                                      *)
(***************************************************************************)
EXTENDS Integers, Sequences, FiniteSets, TLC

VARIABLES
    repo,               \* the repository found from the working directory
    args,               \* command line: commit, branch, branch_mode, pr
    rvconfig,           \* diff_profile and default_branch_mode
    pc,                 \* position of the program
    fn,                 \* function whose diff.print loop is running
    ret,                \* position to continue at when that function returns
    old_tree,           \* Option<&Tree> old_tree of the running diff
    new_tree,           \* Option<&Tree> new_tree of the running diff
    stream,             \* diff lines not yet handed to the print callback
    patches,            \* Vec<String> patches
    current_patch,      \* String current_patch
    last_file,          \* Option<PathBuf> last_file
    touched,            \* BTreeSet<PathBuf> touched, in iteration order
    exp_result,         \* Result<ExpandedCommit, _> of the last resolver call
    expcommit,          \* Option<ExpandedCommit> expcommit of git_review
    current_commit_oid, \* Option<Oid> current_commit_oid of git_review
    base_commit,        \* Option<Commit> base_commit of expanded_from_branch
    xml_string,         \* blocks pushed by get_xml_structure
    world,              \* what lies outside the process: gh, origin, the start directory
    cwd,                \* the working directory of the process
    unreadable,         \* the paths on which fs::read failed
    outcome,            \* how the run ended
    emitted,            \* history: the diff lines the callback has received
    trace,              \* history: resolver calls and failures, in order
    session,            \* start_as_chat, action_menu and the LLM configuration
    all_messages,       \* Vec<Message> all_messages of process_review
    input_string,       \* the last line get_terminal_input returned
    action,             \* the last ActionSelection of the menu
    requests,           \* history: length of the history sent with each LLM request
    commands,           \* history: the git commands the action menu has run
    turns               \* number of menu selections and chat lines read so far

vars == <<repo, args, rvconfig, pc, fn, ret, old_tree, new_tree, stream, patches,
          current_patch, last_file, touched, exp_result, expcommit,
          current_commit_oid, base_commit, xml_string, unreadable, outcome,
          emitted, trace, world, cwd, session, all_messages, input_string,
          action, requests, commands, turns>>

\* the state of process_review after it has rendered the review prompt
ChatVars == <<session, all_messages, input_string, action, requests, commands, turns>>

\* Option<T>: None is the empty sequence, Some(x) the one-element sequence.
None == <<>>
Some(x) == <<x>>
IsSome(o) == Len(o) = 1
Unwrap(o) == o[1]

(***************************************************************************)
(* Bounds                                                                  *)
(***************************************************************************)
\* File contents are versions 1..MaxVer of a file; 0 is "not in the tree".
MaxVer == 2

(***************************************************************************)
(* Paths and the two orders                                                *)
(***************************************************************************)
Slash == 47
\* "Cargo.lock"
CargoLock == <<67, 97, 114, 103, 111, 46, 108, 111, 99, 107>>
\* a.b
PathADotB == << <<97, 46, 98>> >>
\* a/Cargo.lock
PathALock == << <<97>>, CargoLock >>
\* a/c
PathAC == << <<97>>, <<99>> >>
Paths == {PathADotB, PathALock, PathAC}

RECURSIVE BytesLess(_, _)
BytesLess(s, t) ==
    IF t = <<>> THEN FALSE
    ELSE IF s = <<>> THEN TRUE
    ELSE IF Head(s) # Head(t) THEN Head(s) < Head(t)
    ELSE BytesLess(Tail(s), Tail(t))

\* Path::to_str / the path string of a delta: components joined by '/'.
RECURSIVE PathStr(_)
PathStr(p) ==
    IF Len(p) = 0 THEN <<>>
    ELSE IF Len(p) = 1 THEN p[1]
    ELSE p[1] \o <<Slash>> \o PathStr(Tail(p))

\* Order in which the diff lists its deltas: byte order of the path string.
DeltaLess(p, q) == BytesLess(PathStr(p), PathStr(q))

\* Ord of PathBuf, which BTreeSet<PathBuf> iterates in: component by component.
RECURSIVE PathBufLess(_, _)
PathBufLess(p, q) ==
    IF Len(q) = 0 THEN FALSE
    ELSE IF Len(p) = 0 THEN TRUE
    ELSE IF Head(p) # Head(q) THEN BytesLess(Head(p), Head(q))
    ELSE PathBufLess(Tail(p), Tail(q))

\* str::contains
Contains(s, pat) ==
    \E i \in 0..(Len(s) - Len(pat)) : SubSeq(s, i + 1, i + Len(pat)) = pat

(***************************************************************************)
(* Trees and the diff stream                                               *)
(***************************************************************************)
Trees == [Paths -> 0..MaxVer]
EmptyTree == [p \in Paths |-> 0]
\* Option<&Tree>: an absent tree is diffed as the empty tree.
TreeOrEmpty(t) == IF IsSome(t) THEN Unwrap(t) ELSE EmptyTree

\* Content of a line of version v of a file: odd versions are valid UTF-8,
\* even versions are not and are v + 1 bytes long.
IsUtf8Version(v) == v % 2 = 1
FileLine(p, origin, v) ==
    [path |-> p, origin |-> origin, utf8 |-> IsUtf8Version(v),
     text |-> <<"L", p, v>>, len |-> v + 1]
HeaderLine(p, origin) ==
    [path |-> p, origin |-> origin, utf8 |-> TRUE,
     text |-> <<origin, p, 0>>, len |-> 1]

\* Lines the diff prints for one delta: file header, hunk header, the removed
\* line of the old version, the added line of the new version.
DeltaLines(p, old, new) ==
    <<HeaderLine(p, "F"), HeaderLine(p, "H")>>
    \o (IF old[p] # 0 THEN <<FileLine(p, "-", old[p])>> ELSE <<>>)
    \o (IF new[p] # 0 THEN <<FileLine(p, "+", new[p])>> ELSE <<>>)

\* The deltas of a diff, sorted by path string
RECURSIVE DeltaOrder(_)
DeltaOrder(S) ==
    IF S = {} THEN <<>>
    ELSE LET m == CHOOSE x \in S : \A y \in S \ {x} : DeltaLess(x, y)
         IN <<m>> \o DeltaOrder(S \ {m})

RECURSIVE Flatten(_)
Flatten(ss) == IF Len(ss) = 0 THEN <<>> ELSE Head(ss) \o Flatten(Tail(ss))

\* diff_tree_to_tree / diff_tree_to_index followed by print(DiffFormat::Patch):
\* one delta per path whose content differs, deltas in path-string order.
DiffStream(old_opt, new_opt) ==
    LET old == TreeOrEmpty(old_opt)
        new == TreeOrEmpty(new_opt)
        changed == {p \in Paths : old[p] # new[p]}
        order == DeltaOrder(changed)
    IN Flatten([i \in 1..Len(order) |-> DeltaLines(order[i], old, new)])

(***************************************************************************)
(* Patch reassembly: the print callback and what follows the loop          *)
(***************************************************************************)
\* format!("<non-utf8 {} bytes>", content.len())
NonUtf8Placeholder(n) == <<"<non-utf8 N bytes>", <<>>, n>>

\* match std::str::from_utf8(content): what is pushed onto current_patch
Decode_lossy(line) == line.text
Decode(line) == IF line.utf8 THEN line.text ELSE NonUtf8Placeholder(line.len)

\* last_file.as_ref() != maybe_path.as_ref()
PathChanged_always(last, maybe_path) == TRUE
PathChanged(last, maybe_path) == last # maybe_path

\* BTreeSet::insert on the set kept as its sorted sequence
RECURSIVE BTreeInsert(_, _)
BTreeInsert_push(s, p) == Append(s, p)
BTreeInsert(s, p) ==
    IF Len(s) = 0 THEN <<p>>
    ELSE IF Head(s) = p THEN s
    ELSE IF PathBufLess(p, Head(s)) THEN <<p>> \o s
    ELSE <<Head(s)>> \o BTreeInsert(Tail(s), p)

\* Option<Vec<T>>: None when the vector is empty
NoneIfEmpty_some(v) == Some(v)
NoneIfEmpty(v) == IF Len(v) = 0 THEN None ELSE Some(v)

\* ExpandedCommit built at the end of diff_trees_to_expanded
TreesExpanded_without_last_patch(ps, tch) ==
    [diffs |-> NoneIfEmpty(SubSeq(ps, 1, Len(ps) - 1)), sources |-> NoneIfEmpty(tch)]
TreesExpanded(ps, tch) ==
    [diffs |-> NoneIfEmpty(ps), sources |-> NoneIfEmpty(tch)]

\* patches.into_iter().zip(touched.into_iter()) without the Cargo.lock pairs
Min(a, b) == IF a < b THEN a ELSE b
ZipKept(ps, tch) ==
    {i \in 1..Min(Len(ps), Len(tch)) : ~Contains(PathStr(tch[i]), CargoLock)}
RECURSIVE Pick(_, _, _)
Pick(s, keep, i) ==
    IF i > Len(s) THEN <<>>
    ELSE (IF i \in keep THEN <<s[i]>> ELSE <<>>) \o Pick(s, keep, i + 1)

\* ExpandedCommit built at the end of staged_diffs
StagedExpanded_paths_need_diffs(ps, tch, diff_profile) ==
    LET keep == ZipKept(ps, tch)
        filtered_patches == Pick(ps, keep, 1)
        filtered_touched == Pick(tch, keep, 1)
    IN IF diff_profile.report_diffs /\ Len(filtered_patches) # 0
       THEN [diffs |-> Some(filtered_patches), sources |-> Some(filtered_touched)]
       ELSE [diffs |-> None, sources |-> None]
StagedExpanded(ps, tch, diff_profile) ==
    LET keep == ZipKept(ps, tch)
        filtered_patches == Pick(ps, keep, 1)
        filtered_touched == Pick(tch, keep, 1)
    IN [diffs |-> IF diff_profile.report_diffs /\ Len(filtered_patches) # 0
                  THEN Some(filtered_patches) ELSE None,
        sources |-> NoneIfEmpty(filtered_touched)]

\* ExpandedCommit::is_empty
IsEmpty(ec) == ~(IsSome(ec.sources) /\ Len(Unwrap(ec.sources)) > 0)

\* env::set_current_dir(workdir) of staged_diffs; the other resolvers have none
WorkdirFor_always_root(f, dir) == "root"
WorkdirFor(f, dir) == IF f = "staged_diffs" THEN "root" ELSE dir

\* let mut patches: Vec<String> = Vec::new(): a local of each call
NewPatches_kept(previous) == previous
NewPatches(previous) == <<>>

\* Entering a function that runs diff.print: locals at their initial values.
StartDiff(f, old, new, cont) ==
    /\ cwd' = WorkdirFor(f, cwd)
    /\ fn' = f
    /\ ret' = cont
    /\ old_tree' = old
    /\ new_tree' = new
    /\ stream' = DiffStream(old, new)
    /\ patches' = NewPatches(patches)
    /\ current_patch' = <<>>
    /\ last_file' = None
    /\ touched' = <<>>
    /\ emitted' = <<>>
    /\ pc' = "print"

\* One call of the closure passed to diff.print
PrintCallback ==
    /\ pc = "print"
    /\ Len(stream) > 0
    /\ LET line == Head(stream)
           maybe_path == Some(line.path)
           flush == PathChanged(last_file, maybe_path)
           kept == IF flush /\ Len(current_patch) # 0 THEN <<>> ELSE current_patch
       IN /\ patches' = IF flush /\ Len(current_patch) # 0
                        THEN Append(patches, current_patch) ELSE patches
          /\ last_file' = IF flush THEN maybe_path ELSE last_file
          /\ current_patch' = Append(kept, Decode(line))
          /\ touched' = BTreeInsert(touched, Unwrap(maybe_path))
          /\ emitted' = Append(emitted, line)
    /\ stream' = Tail(stream)
    /\ UNCHANGED <<repo, world, ChatVars, unreadable, base_commit, args, rvconfig, pc, fn, ret,
                   old_tree, new_tree, exp_result, expcommit,
                   current_commit_oid, xml_string, outcome, trace, cwd>>

\* After diff.print: push the last patch, build the ExpandedCommit, return Ok
PrintDone ==
    /\ pc = "print"
    /\ Len(stream) = 0
    /\ LET all == IF Len(current_patch) # 0
                  THEN Append(patches, current_patch) ELSE patches
       IN /\ patches' = all
          /\ exp_result' =
                [ok |-> TRUE,
                 val |-> IF fn = "staged_diffs"
                         THEN StagedExpanded(all, touched, rvconfig.diff_profile)
                         ELSE TreesExpanded(all, touched)]
    /\ current_patch' = <<>>
    /\ pc' = ret
    /\ UNCHANGED <<repo, world, ChatVars, unreadable, base_commit, args, rvconfig, fn, ret, old_tree,
                   new_tree, stream, last_file, touched,
                   expcommit, current_commit_oid, xml_string, outcome, emitted,
                   trace, cwd>>

(***************************************************************************)
(* The repository, as the git2 calls of the program see it                 *)
(***************************************************************************)
\* Commit 1 is a root commit and commit 2 its child; 0 stands for "none".
BranchNames == {"main", "master", "feat"}
ParentCount(c) == IF c = 2 THEN 1 ELSE 0
Parent(c) == c - 1

Ok(v) == [ok |-> TRUE, val |-> v]
Err(e) == [ok |-> FALSE, err |-> e]

\* Oid::from_str(rev) and find_object(oid).peel_to_commit(): the fast path
OidOfCommit(r, rev) ==
    IF rev = "c1" /\ r.ncommits >= 1 THEN 1
    ELSE IF rev = "c2" /\ r.ncommits >= 2 THEN 2
    ELSE 0

\* repo.revparse_single(rev)?.peel_to_commit()
RevparseSingle(r, rev) ==
    IF rev = "HEAD" /\ r.head # 0 THEN Ok(r.head)
    ELSE IF OidOfCommit(r, rev) # 0 THEN Ok(OidOfCommit(r, rev))
    ELSE Err("NotFound")

\* get_oid
GetOid(r, rev) ==
    IF ~r.valid THEN Err("RepositoryUnavailable")
    ELSE IF OidOfCommit(r, rev) # 0 THEN Ok(OidOfCommit(r, rev))
    ELSE RevparseSingle(r, rev)

\* repo.find_branch(name, BranchType::Local) and peel_to_commit
FindBranch(r, name) ==
    IF name \in BranchNames /\ r.branches[name] # 0
    THEN Ok(r.branches[name]) ELSE Err("NotFound")

\* BranchAgainst::Main: "main" first, then "master", otherwise the panic!
BaseForMain_master_first(r) ==
    IF FindBranch(r, "master").ok THEN FindBranch(r, "master")
    ELSE IF FindBranch(r, "main").ok THEN FindBranch(r, "main")
    ELSE Err("panic")
BaseForMain(r) ==
    IF FindBranch(r, "main").ok THEN FindBranch(r, "main")
    ELSE IF FindBranch(r, "master").ok THEN FindBranch(r, "master")
    ELSE Err("panic")

\* BranchAgainst::Current: repo.head()?.peel_to_commit()?
BaseForCurrent_main(r) == BaseForMain(r)
BaseForCurrent(r) == IF r.head # 0 THEN Ok(r.head) ELSE Err("UnbornBranch")

\* commit.tree().ok()
TreeOf(r, c) == Some(r.tree[c])

\* expanded_from_commit: the old tree is the first parent's, if any
ParentTree_own_tree(r, c) == IF ParentCount(c) > 0 THEN TreeOf(r, Parent(c)) ELSE TreeOf(r, c)
ParentTree(r, c) == IF ParentCount(c) > 0 THEN TreeOf(r, Parent(c)) ELSE None

\* staged_diffs: match repo.head() { Ok(reference) => Some(tree), Err(_) => None }
HeadTree(r) == IF r.head # 0 THEN TreeOf(r, r.head) ELSE None

(***************************************************************************)
(* How a run ends                                                          *)
(***************************************************************************)
Running == [kind |-> "running", msg |-> "", cause |-> ""]
\* main: println!("[ERROR] You can enable only one parameter ...")
UsageError == [kind |-> "usage", msg |-> "only one of --commit, --branch, --pr", cause |-> ""]
\* git_review: println!("[ERROR] Git integrations failed. ...") and Ok(())
GenericFailure == [kind |-> "generic", msg |-> "Git integrations failed", cause |-> ""]
\* a panic!, unwrap() or index out of bounds
Panic(m) == [kind |-> "panic", msg |-> m, cause |-> ""]
\* git_review returned Err(e): main prints "Error during code review: {e}"
ContextErr_swallowed(m, cause) == GenericFailure
ContextErr(m, cause) == [kind |-> "err", msg |-> m, cause |-> cause]
\* process_review holds its review prompt
Prompted == [kind |-> "prompt", msg |-> "", cause |-> ""]

Event(op, res) == [op |-> op, res |-> res]

(***************************************************************************)
(* ExpandedCommit::get_xml_structure                                       *)
(***************************************************************************)
\* fs::read(source_val) and from_utf8_lossy, or the placeholder
SourceBody(p, failing) ==
    IF p \in failing THEN <<"[source unavailable: err]", p, 0>>
    ELSE <<"file", p, 0>>

\* one <diff PATH > ... </diff> block per patch, tagged sources[diff_counter]
DiffBlocks_source_tag(diffs, sources) ==
    [i \in 1..Len(diffs) |->
        [open |-> "<source ", path |-> sources[i], body |-> diffs[i],
         close |-> "</source>"]]
DiffBlocks(diffs, sources) ==
    [i \in 1..Len(diffs) |->
        [open |-> "<diff ", path |-> sources[i], body |-> diffs[i],
         close |-> "</diff>"]]

\* one <source PATH > ... </source> block per path
SourceBlocks_stop_at_unreadable(sources, failing) ==
    LET before == {i \in 1..Len(sources) :
                      \A j \in 1..i : sources[j] \notin failing}
    IN [i \in 1..Cardinality(before) |->
           [open |-> "<source ", path |-> sources[i],
            body |-> <<SourceBody(sources[i], failing)>>,
            close |-> "</source>"]]
SourceBlocks(sources, failing) ==
    [i \in 1..Len(sources) |->
        [open |-> "<source ", path |-> sources[i],
         body |-> <<SourceBody(sources[i], failing)>>,
         close |-> "</source>"]]

XmlStructure_rejects_empty_profile(ec, diff_profile, failing) ==
    IF ~IsSome(ec.sources) THEN Err("Sources are missing")
    ELSE IF ~diff_profile.report_diffs /\ ~diff_profile.report_sources
    THEN Err("Nothing to report")
    ELSE IF diff_profile.report_diffs /\ ~IsSome(ec.diffs)
    THEN Err("Diffs are missing")
    ELSE Ok((IF diff_profile.report_diffs
             THEN DiffBlocks(Unwrap(ec.diffs), Unwrap(ec.sources)) ELSE <<>>)
            \o (IF diff_profile.report_sources
                THEN SourceBlocks(Unwrap(ec.sources), failing) ELSE <<>>))
XmlStructure(ec, diff_profile, failing) ==
    IF ~IsSome(ec.sources) THEN Err("Sources are missing")
    ELSE IF diff_profile.report_diffs /\ ~IsSome(ec.diffs)
    THEN Err("Diffs are missing")
    ELSE IF diff_profile.report_diffs
            /\ Len(Unwrap(ec.diffs)) > Len(Unwrap(ec.sources))
    THEN Err("index out of bounds")
    ELSE Ok((IF diff_profile.report_diffs
             THEN DiffBlocks(Unwrap(ec.diffs), Unwrap(ec.sources)) ELSE <<>>)
            \o (IF diff_profile.report_sources
                THEN SourceBlocks(Unwrap(ec.sources), failing) ELSE <<>>))

(***************************************************************************)
(* main and git_review                                                     *)
(***************************************************************************)
BoolToU8(b) == IF b THEN 1 ELSE 0
\* args.commit.is_some() as u8 + args.branch.is_some() as u8 + args.pr.is_some() as u8
EnabledGitArgs_without_pr(a) ==
    BoolToU8(IsSome(a.commit)) + BoolToU8(IsSome(a.branch))
EnabledGitArgs(a) ==
    BoolToU8(IsSome(a.commit)) + BoolToU8(IsSome(a.branch)) + BoolToU8(IsSome(a.pr))

Finish(o) == /\ outcome' = o
             /\ pc' = "exit"

ResolverVars == <<fn, ret, old_tree, new_tree, stream, patches, current_patch,
                  last_file, touched, emitted, cwd>>

Main ==
    /\ pc = "main"
    /\ IF EnabledGitArgs(args) > 1
       THEN Finish(UsageError)
       ELSE /\ pc' = "git_review"
            /\ UNCHANGED outcome
    /\ UNCHANGED <<repo, world, ChatVars, unreadable, base_commit, args, rvconfig, ResolverVars, exp_result, expcommit,
                   current_commit_oid, xml_string, trace>>

\* get_oid(rev).context("Failed to get commit OID")?, then
\* expanded_from_commit(commit_oid) up to its diff.print
ResolveCommit(rev, cont, before) ==
    LET oid == GetOid(repo, rev)
    IN IF ~oid.ok
       THEN /\ Finish(ContextErr("Failed to get commit OID", oid.err))
            /\ trace' = before \o <<Event("get_oid", oid.err)>>
            /\ UNCHANGED <<ResolverVars, current_commit_oid>>
       ELSE /\ current_commit_oid' = Some(oid.val)
            /\ trace' = before \o <<Event("get_oid", "ok"),
                                    Event("expanded_from_commit", "called")>>
            /\ StartDiff("diff_trees_to_expanded", ParentTree(repo, oid.val),
                         TreeOf(repo, oid.val), cont)
            /\ UNCHANGED outcome

GitReviewCommit ==
    /\ pc = "git_review"
    /\ IsSome(args.commit)
    /\ ResolveCommit(Unwrap(args.commit), "commit_ret", trace)
    /\ UNCHANGED <<repo, world, ChatVars, unreadable, base_commit, args, rvconfig, exp_result, expcommit, xml_string>>

\* if let Ok(expanded) = exp_result { expcommit = Some(expanded); }
CommitReturn ==
    /\ pc \in {"commit_ret", "fallback_ret"}
    /\ expcommit' = IF exp_result.ok THEN Some(exp_result.val) ELSE expcommit
    /\ pc' = "gate"
    /\ UNCHANGED <<repo, world, ChatVars, unreadable, base_commit, args, rvconfig, ResolverVars, exp_result,
                   current_commit_oid, xml_string, outcome, trace>>

\* let mut used_branch_mode = rvconfig.default_branch_mode; overridden by --branch-mode
UsedBranchMode ==
    IF IsSome(args.branch_mode) THEN Unwrap(args.branch_mode)
    ELSE rvconfig.default_branch_mode

\* expanded_from_branch up to its diff.print
GitReviewBranch ==
    /\ pc = "git_review"
    /\ ~IsSome(args.commit)
    /\ IsSome(args.branch)
    /\ LET name == Unwrap(args.branch)
           tip == IF repo.valid THEN FindBranch(repo, name)
                  ELSE Err("RepositoryUnavailable")
           base == IF UsedBranchMode = "Current" THEN BaseForCurrent(repo)
                   ELSE BaseForMain(repo)
       IN IF ~tip.ok
          THEN /\ exp_result' = Err(tip.err)
               /\ trace' = Append(trace, Event("expanded_from_branch", tip.err))
               /\ pc' = "branch_ret"
               /\ UNCHANGED <<ResolverVars, outcome, base_commit>>
          ELSE IF ~base.ok /\ base.err = "panic"
          THEN /\ Finish(Panic("no branches named 'main' or 'master'"))
               /\ trace' = Append(trace, Event("expanded_from_branch", "NoBaseBranch"))
               /\ UNCHANGED <<ResolverVars, exp_result, base_commit>>
          ELSE IF ~base.ok
          THEN /\ exp_result' = Err(base.err)
               /\ trace' = Append(trace, Event("expanded_from_branch", base.err))
               /\ pc' = "branch_ret"
               /\ UNCHANGED <<ResolverVars, outcome, base_commit>>
          ELSE /\ StartDiff("diff_trees_to_expanded", TreeOf(repo, base.val),
                            TreeOf(repo, tip.val), "branch_ret")
               /\ base_commit' = Some(base.val)
               /\ trace' = Append(trace, Event("expanded_from_branch", "called"))
               /\ UNCHANGED <<exp_result, outcome>>
    /\ UNCHANGED <<repo, world, ChatVars, unreadable, args, rvconfig, expcommit,
                   current_commit_oid, xml_string>>

\* if let Ok(expanded) = exp_result { current_commit_oid = branch tip; expcommit = ... }
BranchReturn ==
    /\ pc = "branch_ret"
    /\ IF exp_result.ok
       THEN /\ current_commit_oid' = Some(FindBranch(repo, Unwrap(args.branch)).val)
            /\ expcommit' = Some(exp_result.val)
       ELSE UNCHANGED <<current_commit_oid, expcommit>>
    /\ pc' = "gate"
    /\ UNCHANGED <<repo, world, ChatVars, unreadable, base_commit, args, rvconfig, ResolverVars, exp_result, xml_string,
                   outcome, trace>>

\* What the GitHub resolver (gh, git fetch) can come back with
PrFailures == {"gh not available", "gh pr view failed", "git fetch failed",
               "commit still missing after fetch"}

\* How a commit of the pull request stands with the local repository: there
\* already, not there and the fetch fails, not there after a fetch that
\* succeeded, or brought in by the fetch
CommitStates == {"local", "fetch_fails", "still_missing", "fetched"}

\* ensure_base_available / ensure_pr_head_available: commit_exists_locally,
\* and only if it does not, git fetch and commit_exists_locally again
EnsureAvailable_always_fetch(which, state) ==
    LET fetch == IF state = "fetch_fails"
                 THEN <<Event("git fetch " \o which, "failed")>>
                 ELSE <<Event("git fetch " \o which, "ok"),
                        Event("cat-file " \o which,
                              IF state = "still_missing" THEN "missing" ELSE "present")>>
    IN <<Event("cat-file " \o which, IF state = "local" THEN "present" ELSE "missing")>>
       \o fetch
EnsureAvailable(which, state) ==
    IF state = "local" THEN <<Event("cat-file " \o which, "present")>>
    ELSE IF state = "fetch_fails"
    THEN <<Event("cat-file " \o which, "missing"), Event("git fetch " \o which, "failed")>>
    ELSE <<Event("cat-file " \o which, "missing"), Event("git fetch " \o which, "ok"),
           Event("cat-file " \o which,
                 IF state = "still_missing" THEN "missing" ELSE "present")>>

\* the error the `?` after ensure_*_available returns, if any
EnsureFailure(steps) ==
    LET last == steps[Len(steps)]
    IN IF last.res = "failed" THEN Some("git fetch failed")
       ELSE IF last.res = "missing" THEN Some("commit still missing after fetch")
       ELSE None

\* expanded_commit_from_pr up to its call of expanded_between_commits: the
\* commands run, in order, and the error that ended them, if any
PrSteps(w) ==
    LET gh_version == <<Event("gh --version", IF w.gh_ok THEN "ok" ELSE "failed")>>
        pr_view == <<Event("gh pr view", IF w.view_ok THEN "ok" ELSE "failed")>>
        base == EnsureAvailable("base", w.base_state)
        head == EnsureAvailable("head", w.head_state)
    IN IF ~w.gh_ok THEN [steps |-> gh_version, failure |-> Some("gh not available")]
       ELSE IF ~w.view_ok
       THEN [steps |-> gh_version \o pr_view, failure |-> Some("gh pr view failed")]
       ELSE IF IsSome(EnsureFailure(base))
       THEN [steps |-> gh_version \o pr_view \o base, failure |-> EnsureFailure(base)]
       ELSE IF IsSome(EnsureFailure(head))
       THEN [steps |-> gh_version \o pr_view \o base \o head,
             failure |-> EnsureFailure(head)]
       ELSE [steps |-> gh_version \o pr_view \o base \o head
                        \o <<Event("expanded_between_commits", "called")>>,
             failure |-> None]

\* github::expanded_commit_from_pr(&pr_id).context(...)? up to the diff.print of
\* expanded_between_commits(base_oid, head_oid)
GitReviewPr ==
    /\ pc = "git_review"
    /\ ~IsSome(args.commit)
    /\ ~IsSome(args.branch)
    /\ IsSome(args.pr)
    /\ LET r == PrSteps(world)
       IN IF IsSome(r.failure)
          THEN /\ Finish(ContextErr("Failed to build diff from GitHub pull request",
                                    Unwrap(r.failure)))
               /\ trace' = trace \o r.steps
                              \o <<Event("expanded_commit_from_pr", Unwrap(r.failure))>>
               /\ UNCHANGED ResolverVars
          ELSE /\ StartDiff("diff_trees_to_expanded", TreeOf(repo, world.base_oid),
                            TreeOf(repo, world.head_oid), "pr_ret")
               /\ trace' = trace \o r.steps
                              \o <<Event("expanded_commit_from_pr", "called")>>
               /\ UNCHANGED outcome
    /\ UNCHANGED <<repo, world, ChatVars, unreadable, base_commit, args, rvconfig, exp_result,
                   expcommit, current_commit_oid, xml_string>>

\* a bare `?`: the error is returned as it is
PlainErr(cause) == [kind |-> "err", msg |-> cause, cause |-> cause]

\* expcommit = Some(pr_expcommit); current_commit_oid = Some(get_oid("HEAD")?)
PrReturn ==
    /\ pc = "pr_ret"
    /\ expcommit' = Some(exp_result.val)
    /\ LET oid == GetOid(repo, "HEAD")
       IN IF oid.ok
          THEN /\ current_commit_oid' = Some(oid.val)
               /\ pc' = "gate"
               /\ trace' = Append(trace, Event("get_oid", "ok"))
               /\ UNCHANGED outcome
          ELSE /\ Finish(PlainErr(oid.err))
               /\ trace' = Append(trace, Event("get_oid", oid.err))
               /\ UNCHANGED current_commit_oid
    /\ UNCHANGED <<repo, world, ChatVars, unreadable, base_commit, args, rvconfig, ResolverVars, exp_result, xml_string>>

\* staged_diffs(rvconfig.diff_profile) up to its diff.print
GitReviewStaged ==
    /\ pc = "git_review"
    /\ ~IsSome(args.commit)
    /\ ~IsSome(args.branch)
    /\ ~IsSome(args.pr)
    /\ IF ~repo.valid \/ ~repo.index_ok
       THEN /\ exp_result' = Err(IF repo.valid THEN "IndexUnreadable"
                                 ELSE "RepositoryUnavailable")
            /\ trace' = Append(trace, Event("staged_diffs", "failed"))
            /\ pc' = "staged_ret"
            /\ UNCHANGED ResolverVars
       ELSE /\ StartDiff("staged_diffs", HeadTree(repo), Some(repo.index),
                         "staged_ret")
            /\ trace' = trace \o <<Event("staged_diffs", "called"),
                                    Event("set_current_dir", "workdir")>>
            /\ UNCHANGED exp_result
    /\ UNCHANGED <<repo, world, ChatVars, unreadable, base_commit, args, rvconfig, expcommit, current_commit_oid,
                   xml_string, outcome>>

\* if exp_result.is_ok() { if is_empty() { HEAD } else { review } } else { HEAD }
AfterStaged_error_returned(res) ==
    IF res.ok THEN (IF IsEmpty(res.val) THEN "head" ELSE "review") ELSE "error"
AfterStaged(res) ==
    IF res.ok THEN (IF IsEmpty(res.val) THEN "head" ELSE "review") ELSE "head"

\* What git_review does with the result of staged_diffs
StagedReturn ==
    /\ pc = "staged_ret"
    /\ IF AfterStaged(exp_result) = "review"
       THEN \* the staged bundle is reviewed; the current commit is HEAD
            /\ expcommit' = Some(exp_result.val)
            /\ LET oid == GetOid(repo, "HEAD")
               IN IF oid.ok
                  THEN /\ current_commit_oid' = Some(oid.val)
                       /\ pc' = "gate"
                       /\ trace' = trace \o <<Event("staged_result", "nonempty"),
                                               Event("get_oid", "ok")>>
                       /\ UNCHANGED outcome
                  ELSE /\ Finish(PlainErr(oid.err))
                       /\ trace' = trace \o <<Event("staged_result", "nonempty"),
                                               Event("get_oid", oid.err)>>
                       /\ UNCHANGED current_commit_oid
            /\ UNCHANGED ResolverVars
       ELSE IF AfterStaged(exp_result) = "head"
       THEN \* "Staged is empty, switching to HEAD"
            /\ ResolveCommit("HEAD", "fallback_ret",
                             trace \o <<Event("staged_result",
                                              IF exp_result.ok THEN "empty"
                                              ELSE "failed"),
                                        Event("fallback", "HEAD")>>)
            /\ UNCHANGED expcommit
       ELSE \* no branch of git_review returns the error of staged_diffs
            /\ Finish(PlainErr(exp_result.err))
            /\ trace' = Append(trace, Event("staged_result", "failed"))
            /\ UNCHANGED <<ResolverVars, expcommit, current_commit_oid>>
    /\ UNCHANGED <<repo, world, ChatVars, unreadable, base_commit, args, rvconfig, exp_result, xml_string>>

\* if let Some(expanded) = expcommit { process_review(...) } else { println!(...) }
Gate ==
    /\ pc = "gate"
    /\ IF IsSome(expcommit)
       THEN /\ pc' = "process_review"
            /\ UNCHANGED outcome
       ELSE Finish(GenericFailure)
    /\ UNCHANGED <<repo, world, ChatVars, unreadable, base_commit, args, rvconfig, ResolverVars, exp_result, expcommit,
                   current_commit_oid, xml_string, trace>>

\* the paths get_xml_structure may try to read
SourcePaths(ec) ==
    IF IsSome(ec.sources)
    THEN {Unwrap(ec.sources)[i] : i \in 1..Len(Unwrap(ec.sources))} ELSE {}

\* process_review: let review_prompt = expcommit.get_xml_structure(rvconfig.diff_profile)
ProcessReview ==
    /\ pc = "process_review"
    /\ \E failing \in SUBSET SourcePaths(Unwrap(expcommit)) :
         LET r == XmlStructure(Unwrap(expcommit), rvconfig.diff_profile, failing)
         IN \* fs::read is only called when the sources are reported
            /\ (~r.ok \/ ~rvconfig.diff_profile.report_sources) => failing = {}
            /\ unreadable' = failing
            /\ IF r.ok
               THEN /\ xml_string' = r.val
                    /\ outcome' = Prompted
                    /\ pc' = "prompted"
               ELSE /\ Finish(Panic(r.err))
                    /\ UNCHANGED xml_string
    /\ UNCHANGED <<repo, world, ChatVars, base_commit, args, rvconfig, ResolverVars,
                   exp_result, expcommit, current_commit_oid, trace>>

(***************************************************************************)
(* process_review after the review prompt: the LLM requests, the chat      *)
(* loops and the action menu                                               *)
(***************************************************************************)
\* the number of menu selections and chat lines a run may read
MaxTurns == 3

\* Message::user and Message::assistant; a content is its kind and its text
User(content) == [role |-> "user", content |-> content]
Assistant(content) == [role |-> "assistant", content |-> content]
ReviewPrompt(xml) == User(<<"review_prompt", xml>>)
UserInput(line) == User(<<"input", line>>)
ContextLoaded(file_path) == User(<<"[CONTEXT LOADED: ", file_path>>)
Response == Assistant(<<"response">>)

\* process_review returned Ok(()), process::exit(code)
Completed == [kind |-> "ok", msg |-> "", cause |-> ""]
Exited(code) == [kind |-> "process::exit", msg |-> code, cause |-> ""]

\* let run_action_mode: bool = action_menu.unwrap_or(llm_configuration.actions_menu)
RunActionMode(s) ==
    IF IsSome(s.action_menu) THEN Unwrap(s.action_menu) ELSE s.actions_menu

\* Lines of the terminal, trimmed and cut at their spaces
ChatLines ==
    {<<>>, <<"/quit">>, <<"/exit">>, <<"/load">>, <<"/load", "ctx.md">>,
     <<"/load", "missing.md">>, <<"/read-only", "ctx.md">>, <<"hello">>}

\* what rl.readline(&prompt) may give
ReadlineResults ==
    {[kind |-> "Ok", line |-> l] : l \in ChatLines}
    \cup {[kind |-> k, line |-> <<>>] : k \in {"Interrupted", "Eof", "Err"}}

\* get_terminal_input: the line, String::new() after Ctrl-C or an error, and
\* no return at all after Ctrl-D (process::exit(0))
GetTerminalInput(res) ==
    IF res.kind = "Ok" THEN Some(res.line)
    ELSE IF res.kind = "Eof" THEN None
    ELSE Some(<<>>)

\* input_string.trim().is_empty()
IsBlank(line) == Len(line) = 0
\* trimmed_input == "/quit" || trimmed_input == "/exit"
IsQuit(line) == line = <<"/quit">> \/ line = <<"/exit">>
\* trimmed_input.starts_with("/load ") || trimmed_input.starts_with("/read-only ")
StartsWithLoad(line) ==
    Len(line) >= 2 /\ line[1] \in {"/load", "/read-only"}

\* the files load_context_file can read
ContextFiles == {"ctx.md"}
LoadContextFile(file_path) ==
    IF file_path \in ContextFiles THEN Ok(file_path)
    ELSE Err("Failed to read context file")

\* handle_load_command: the text it returns and the history it leaves
HandleLoadCommand(command, msgs) ==
    IF Len(command) < 2
    THEN [response |-> "Usage: /load <file_path> or /read-only <file_path>",
          all_messages |-> msgs]
    ELSE IF LoadContextFile(command[2]).ok
    THEN [response |-> "Successfully loaded context",
          all_messages |-> Append(msgs, ContextLoaded(command[2]))]
    ELSE [response |-> "Failed to load context file", all_messages |-> msgs]

\* Command::new("git").args(..).status(): the exit status, or no process
Statuses == {"success", "failure", "spawn_error"}
Run(cmd, st) == [cmd |-> cmd, status |-> st]
\* the commands an action has run, and whether a `?` returned an error
Ran(runs) ==
    [runs |-> runs,
     err |-> Len(runs) > 0 /\ runs[Len(runs)].status = "spawn_error"]

\* get_parent_oid
GetParentOid(r, c) ==
    IF ~r.valid THEN Err("RepositoryUnavailable")
    ELSE IF c \notin 1..r.ncommits THEN Err("NotFound")
    ELSE IF ParentCount(c) > 0 THEN Ok(Parent(c))
    ELSE Err("Commit has no parent")

\* ActionSelection::GitAddAndFixup
GitAddAndFixup_commit_regardless(oid, add_st, commit_st) ==
    IF ~IsSome(oid) THEN Ran(<<>>)
    ELSE IF add_st # "spawn_error"
    THEN Ran(<<Run("git add .", add_st), Run("git commit --fixup", commit_st)>>)
    ELSE Ran(<<Run("git add .", add_st)>>)
GitAddAndFixup(oid, add_st, commit_st) ==
    IF ~IsSome(oid) THEN Ran(<<>>)
    ELSE IF add_st = "success"
    THEN Ran(<<Run("git add .", add_st), Run("git commit --fixup", commit_st)>>)
    ELSE Ran(<<Run("git add .", add_st)>>)

\* ActionSelection::GitAddAndCommit; read_ok is stdin().read_line(..)
GitAddAndCommit(add_st, read_ok, commit_st) ==
    IF add_st # "success" THEN Ran(<<Run("git add .", add_st)>>)
    ELSE IF ~read_ok THEN [runs |-> <<Run("git add .", add_st)>>, err |-> TRUE]
    ELSE Ran(<<Run("git add .", add_st), Run("git commit -m", commit_st)>>)

\* ActionSelection::GitRevertLast
GitRevertLast(r, oid, revert_st) ==
    IF ~IsSome(oid) THEN Ran(<<>>)
    ELSE IF GetParentOid(r, Unwrap(oid)).ok
    THEN Ran(<<Run("git revert --no-edit", revert_st)>>)
    ELSE Ran(<<>>)

ActionSelections ==
    {"EnterChatMode", "GitAddAndFixup", "GitAddAndCommit", "GitRevertLast", "Quit"}

\* the commands of the menu action number t
InAction(runs, t) ==
    [i \in 1..Len(runs) |->
        [cmd |-> runs[i].cmd, status |-> runs[i].status, action |-> t]]

\* process_review from the choice of the LLM configuration to
\* messages.push(Message::user(review_prompt.clone()))
StartConversation ==
    /\ pc = "prompted"
    /\ \E setup \in {"ok", "no llm configuration", "api key", "pack_prompt"} :
         IF setup = "ok"
         THEN /\ all_messages' = <<ReviewPrompt(xml_string)>>
              /\ pc' = IF RunActionMode(session) THEN "menu"
                       ELSE IF session.start_as_chat THEN "chat" ELSE "single"
              /\ UNCHANGED outcome
         ELSE /\ Finish(IF setup = "no llm configuration"
                        THEN Exited("1") ELSE PlainErr(setup))
              /\ UNCHANGED all_messages
    /\ UNCHANGED <<repo, world, base_commit, args, rvconfig, ResolverVars, exp_result,
                   expcommit, current_commit_oid, xml_string, unreadable, trace,
                   session, input_string, action, requests, commands, turns>>

\* where the code goes after the `if all_messages.len() == 1 { .. }`
AfterInitial(at) ==
    IF at = "menu" THEN "menu_select" ELSE IF at = "chat" THEN "chat_input" ELSE "exit"

\* if all_messages.len() == 1 { stream_request_stdout(..)?; push(assistant) },
\* at the top of the menu loop, at the top of the chat loop, and in the plain review
InitialReview ==
    /\ pc \in {"menu", "chat", "single"}
    /\ IF Len(all_messages) = 1
       THEN \E replied \in BOOLEAN :
              /\ requests' = Append(requests, Len(all_messages))
              /\ IF replied
                 THEN /\ all_messages' = Append(all_messages, Response)
                      /\ pc' = AfterInitial(pc)
                      /\ outcome' = IF pc = "single" THEN Completed ELSE outcome
                 ELSE /\ Finish(PlainErr("request failed"))
                      /\ UNCHANGED all_messages
       ELSE /\ pc' = AfterInitial(pc)
            /\ outcome' = IF pc = "single" THEN Completed ELSE outcome
            /\ UNCHANGED <<all_messages, requests>>
    /\ UNCHANGED <<repo, world, base_commit, args, rvconfig, ResolverVars, exp_result,
                   expcommit, current_commit_oid, xml_string, unreadable, trace,
                   session, input_string, action, commands, turns>>

\* what the selected action runs
MenuAction(sel, r, oid, add_st, read_ok, last_st) ==
    IF sel = "GitAddAndFixup" THEN GitAddAndFixup(oid, add_st, last_st)
    ELSE IF sel = "GitAddAndCommit" THEN GitAddAndCommit(add_st, read_ok, last_st)
    ELSE IF sel = "GitRevertLast" THEN GitRevertLast(r, oid, last_st)
    ELSE Ran(<<>>)

\* let action = term_helpers::select_action_menu(); match action { .. }
SelectAction ==
    /\ pc = "menu_select"
    /\ turns < MaxTurns
    /\ turns' = turns + 1
    /\ \E sel \in ActionSelections \cup {"interact failed"},
          add_st \in Statuses, last_st \in Statuses, read_ok \in BOOLEAN :
         LET ran == MenuAction(sel, repo, current_commit_oid, add_st, read_ok, last_st)
         IN /\ action' = sel
            /\ commands' = commands \o InAction(ran.runs, turns + 1)
            /\ IF sel = "interact failed" THEN Finish(Panic("select_action_menu"))
               ELSE IF sel = "Quit" THEN Finish(Completed)
               ELSE IF ran.err THEN Finish(PlainErr("io error"))
               ELSE /\ pc' = IF sel = "EnterChatMode" THEN "menu_chat" ELSE "menu"
                    /\ UNCHANGED outcome
    /\ UNCHANGED <<repo, world, base_commit, args, rvconfig, ResolverVars, exp_result,
                   expcommit, current_commit_oid, xml_string, unreadable, trace,
                   session, all_messages, input_string, requests>>

\* `continue` in a chat loop: the inner loop of the menu, or the top of the
\* chat loop of the plain flow
Continue(at) == IF at = "menu_chat" THEN "menu_chat" ELSE "chat"

\* one line of a chat loop, from get_terminal_input to the end of the body
ChatInput ==
    /\ pc \in {"menu_chat", "chat_input"}
    /\ turns < MaxTurns
    /\ turns' = turns + 1
    /\ \E res \in ReadlineResults, replied \in BOOLEAN :
         LET got == GetTerminalInput(res)
             line == Unwrap(got)
         IN IF ~IsSome(got)
            THEN /\ Finish(Exited("0"))
                 /\ UNCHANGED <<all_messages, input_string, requests>>
            ELSE /\ input_string' = line
                 /\ IF IsBlank(line)
                    THEN /\ pc' = Continue(pc)
                         /\ UNCHANGED <<all_messages, requests, outcome>>
                    ELSE IF IsQuit(line)
                    THEN /\ IF pc = "menu_chat"
                            THEN pc' = "menu" /\ UNCHANGED outcome
                            ELSE Finish(Completed)
                         /\ UNCHANGED <<all_messages, requests>>
                    ELSE IF StartsWithLoad(line)
                    THEN /\ all_messages' = HandleLoadCommand(line, all_messages).all_messages
                         /\ pc' = Continue(pc)
                         /\ UNCHANGED <<requests, outcome>>
                    ELSE /\ requests' = Append(requests, Len(all_messages) + 1)
                         /\ IF replied
                            THEN /\ all_messages' =
                                      all_messages \o <<UserInput(line), Response>>
                                 /\ pc' = Continue(pc)
                                 /\ UNCHANGED outcome
                            ELSE /\ all_messages' = Append(all_messages, UserInput(line))
                                 /\ Finish(PlainErr("request failed"))
    /\ UNCHANGED <<repo, world, base_commit, args, rvconfig, ResolverVars, exp_result,
                   expcommit, current_commit_oid, xml_string, unreadable, trace,
                   session, action, commands>>

(***************************************************************************)
(* Initial states                                                          *)
(***************************************************************************)
DiffProfiles == [report_diffs : BOOLEAN, report_sources : BOOLEAN]
BranchModes == {"Current", "Main"}
OptionOf(S) == {None} \cup {Some(x) : x \in S}

\* a tree with one file
OneFileTree == [p \in Paths |-> IF p = PathADotB THEN 1 ELSE 0]
SmallTrees == {EmptyTree, OneFileTree}

NoBranches == [b \in BranchNames |-> 0]
\* each local branch is absent or at one of the commits
BranchMaps(n) == [BranchNames -> 0..n]

MkRepo(n, h, b, t1, t2, idx, iok) ==
    [valid |-> TRUE, index_ok |-> iok, ncommits |-> n, head |-> h,
     branches |-> b, tree |-> <<t1, t2>>, index |-> idx]

\* Repositories with n commits (HEAD unborn or at any of them) whose trees
\* and index are drawn from ts; bs are the branch maps, ioks the index states
ReposN(n, ts, bs, idxs, ioks) ==
    {MkRepo(n, h, b, t1, t2, idx, iok) :
        h \in 0..n, b \in bs,
        t1 \in (IF n >= 1 THEN ts ELSE {EmptyTree}),
        t2 \in (IF n >= 2 THEN ts ELSE {EmptyTree}),
        idx \in idxs, iok \in ioks}

\* Not inside a repository: Repository::discover fails
NoRepo == [valid |-> FALSE, index_ok |-> FALSE, ncommits |-> 0, head |-> 0,
           branches |-> NoBranches, tree |-> <<EmptyTree, EmptyTree>>,
           index |-> EmptyTree]

ArgSets ==
    [commit : OptionOf({"HEAD", "c1", "c2", "bad"}),
     branch : OptionOf({"feat", "nope"}),
     branch_mode : OptionOf(BranchModes),
     pr : OptionOf({"1"})]

\* a run of the plain review: no chat, no menu
NoSession == [start_as_chat |-> FALSE, action_menu |-> None, actions_menu |-> FALSE]

\* process_review has not reached its conversation yet
ChatIdle ==
    /\ all_messages = <<>>
    /\ input_string = <<>>
    /\ action = "none"
    /\ requests = <<>>
    /\ commands = <<>>
    /\ turns = 0

InitRest ==
    /\ pc = "main"
    /\ fn = "none"
    /\ ret = "none"
    /\ old_tree = None
    /\ new_tree = None
    /\ stream = <<>>
    /\ patches = <<>>
    /\ current_patch = <<>>
    /\ last_file = None
    /\ touched = <<>>
    /\ exp_result = Err("none")
    /\ expcommit = None
    /\ current_commit_oid = None
    /\ base_commit = None
    /\ xml_string = <<>>
    /\ unreadable = {}
    /\ outcome = Running
    /\ emitted = <<>>
    /\ trace = <<>>
    /\ cwd = world.start_dir
    /\ session = NoSession
    /\ ChatIdle

NoBranchMaps == {NoBranches}

\* gh and origin as the pull-request resolver meets them, and the directory rv
\* is started in
MkWorld(g, v, b, h, bs, hs, d) ==
    [gh_ok |-> g, view_ok |-> v, base_oid |-> b, head_oid |-> h,
     base_state |-> bs, head_state |-> hs, start_dir |-> d]
\* the world of a run that never calls gh
NoGh(d) == MkWorld(FALSE, FALSE, 0, 0, "fetch_fails", "fetch_fails", d)
\* Every way the steps of the pull-request resolver can go in repository r;
\* what a step never reads is fixed. A commit can only be named, found or
\* fetched if it exists (1..r.ncommits).
PrWorlds(r) ==
    LET d == IF r.valid THEN "subdir" ELSE "outside"
        oids == IF r.valid THEN 1..r.ncommits ELSE {}
    IN {NoGh(d), MkWorld(TRUE, FALSE, 0, 0, "fetch_fails", "fetch_fails", d),
        MkWorld(TRUE, TRUE, 0, 0, "fetch_fails", "fetch_fails", d),
        MkWorld(TRUE, TRUE, 0, 0, "still_missing", "fetch_fails", d)}
       \cup {MkWorld(TRUE, TRUE, b, 0, bs, hs, d) :
                b \in oids, bs \in {"local", "fetched"},
                hs \in {"fetch_fails", "still_missing"}}
       \cup {MkWorld(TRUE, TRUE, b, h, bs, hs, d) :
                b \in oids, h \in oids, bs \in {"local", "fetched"},
                hs \in {"local", "fetched"}}
\* rv is started at the root of the work tree or below it
StartDirs(r) == IF r.valid THEN {"root", "subdir"} ELSE {"outside"}
WorldsFor(a, r) ==
    IF EnabledGitArgs(a) = 1 /\ IsSome(a.pr) THEN PrWorlds(r)
    ELSE IF EnabledGitArgs(a) = 0 THEN {NoGh(d) : d \in StartDirs(r)}
    ELSE {NoGh(IF r.valid THEN "subdir" ELSE "outside")}

\* Inputs that a run never reads are fixed: the repository when main rejects
\* the arguments, the branches unless --branch is given, the index unless the
\* staged edits are the target.
ReposFor(a, ts) ==
    IF EnabledGitArgs(a) > 1 THEN {NoRepo}
    ELSE {NoRepo} \cup UNION {
        IF IsSome(a.branch)
        THEN ReposN(n, ts, BranchMaps(n), {EmptyTree}, {TRUE})
        ELSE IF EnabledGitArgs(a) # 0
        THEN ReposN(n, ts, NoBranchMaps, {EmptyTree}, {TRUE})
        ELSE ReposN(n, ts, NoBranchMaps, ts, BOOLEAN) : n \in 0..2}

\* Every target on small repositories
Init ==
    /\ args \in ArgSets
    /\ ~IsSome(args.branch) => args.branch_mode = None
    /\ rvconfig \in [diff_profile : DiffProfiles, default_branch_mode : BranchModes]
    /\ (~IsSome(args.branch) \/ IsSome(args.branch_mode)) =>
          rvconfig.default_branch_mode = "Current"
    /\ EnabledGitArgs(args) > 1 =>
          rvconfig.diff_profile = [report_diffs |-> TRUE, report_sources |-> TRUE]
    /\ repo \in ReposFor(args, SmallTrees)
    /\ world \in WorldsFor(args, repo)
    /\ InitRest

Next ==
    \/ Main
    \/ GitReviewCommit
    \/ CommitReturn
    \/ GitReviewBranch
    \/ BranchReturn
    \/ GitReviewPr
    \/ PrReturn
    \/ GitReviewStaged
    \/ StagedReturn
    \/ Gate
    \/ ProcessReview
    \/ PrintCallback
    \/ PrintDone

Spec == Init /\ [][Next]_vars

\* "feat" at the child commit, compared with HEAD at the root commit
FeatMaps == {[b \in BranchNames |-> IF b = "feat" THEN 2 ELSE 0]}

\* Each of the four targets on repositories with arbitrary trees: the staged
\* edits, a root commit, a child commit, a branch against HEAD, a pull request
InitDiff ==
    /\ args \in [commit : OptionOf({"c1", "c2"}), branch : OptionOf({"feat"}),
                 branch_mode : {None}, pr : OptionOf({"1"})]
    /\ EnabledGitArgs(args) <= 1
    /\ rvconfig \in [diff_profile : DiffProfiles, default_branch_mode : {"Current"}]
    /\ repo \in IF args.commit = Some("c2")
                THEN {r \in ReposN(2, Trees, NoBranchMaps, {EmptyTree}, {TRUE}) :
                        r.head = 2}
                ELSE IF args.commit = Some("c1")
                THEN {r \in ReposN(1, Trees, NoBranchMaps, {EmptyTree}, {TRUE}) :
                        r.head = 1}
                ELSE IF IsSome(args.branch)
                THEN {r \in ReposN(2, Trees, FeatMaps, {EmptyTree}, {TRUE}) :
                        r.head = 1}
                ELSE IF IsSome(args.pr)
                THEN {r \in ReposN(2, Trees, NoBranchMaps, {EmptyTree}, {TRUE}) :
                        r.head = 2}
                ELSE {r \in ReposN(0, Trees, NoBranchMaps, Trees, {TRUE})
                            \cup ReposN(1, Trees, NoBranchMaps, Trees, {TRUE}) :
                        r.head = r.ncommits}
    /\ world \in IF IsSome(args.pr)
                 THEN {NoGh("subdir")}
                      \cup {MkWorld(TRUE, TRUE, b, h, "local", "local", "subdir") :
                               b \in 1..2, h \in 1..2}
                 ELSE {NoGh("subdir")}
    /\ InitRest

SpecDiff == InitDiff /\ [][Next]_vars

\* The reassembly on its own: a resolver is called on a pair of trees, its
\* bundle is kept, and it is called again on the same trees.
InitTwice ==
    /\ args = [commit |-> None, branch |-> None, branch_mode |-> None, pr |-> None]
    /\ rvconfig \in [diff_profile : {[report_diffs |-> TRUE, report_sources |-> TRUE]},
                     default_branch_mode : {"Current"}]
    /\ repo = MkRepo(0, 0, NoBranches, EmptyTree, EmptyTree, EmptyTree, TRUE)
    /\ world = NoGh("root")
    /\ cwd = "root"
    /\ pc = "print"
    /\ fn \in {"diff_trees_to_expanded", "staged_diffs"}
    /\ ret = "again"
    /\ old_tree \in OptionOf(Trees)
    /\ new_tree \in OptionOf(Trees) \ {None}
    /\ stream = DiffStream(old_tree, new_tree)
    /\ patches = <<>>
    /\ current_patch = <<>>
    /\ last_file = None
    /\ touched = <<>>
    /\ exp_result = Err("none")
    /\ expcommit = None
    /\ current_commit_oid = None
    /\ base_commit = None
    /\ xml_string = <<>>
    /\ unreadable = {}
    /\ outcome = Running
    /\ emitted = <<>>
    /\ trace = <<>>
    /\ session = NoSession
    /\ ChatIdle

\* the caller keeps the first bundle and calls the resolver again
CallAgain ==
    /\ pc = "again"
    /\ expcommit' = Some(exp_result.val)
    /\ trace' = Append(trace, Event(fn, "again"))
    /\ StartDiff(fn, old_tree, new_tree, "twice")
    /\ UNCHANGED <<repo, world, ChatVars, unreadable, base_commit, args, rvconfig, exp_result,
                   current_commit_oid, xml_string, outcome>>

NextTwice ==
    \/ PrintCallback
    \/ PrintDone
    \/ CallAgain

SpecTwice == InitTwice /\ [][NextTwice]_vars

\* the inputs of process_review: --chat, --action-menu and the actions_menu
\* field of the LLM configuration
Sessions ==
    [start_as_chat : BOOLEAN, action_menu : OptionOf(BOOLEAN), actions_menu : BOOLEAN]

\* a bundle of one changed file
OneFileBundle == [diffs |-> Some(<<<<HeaderLine(PathADotB, "F")>>>>),
                  sources |-> Some(<<PathADotB>>)]

\* process_review on its own: called by git_review with the commit it
\* reviewed, or by raw_review with no commit
InitChat ==
    /\ args = [commit |-> None, branch |-> None, branch_mode |-> None, pr |-> None]
    /\ rvconfig = [diff_profile |-> [report_diffs |-> TRUE, report_sources |-> FALSE],
                   default_branch_mode |-> "Current"]
    /\ repo \in {MkRepo(2, 2, NoBranches, EmptyTree, OneFileTree, OneFileTree, TRUE),
                 NoRepo}
    /\ world = NoGh("root")
    /\ cwd = "root"
    /\ pc = "process_review"
    /\ fn = "none"
    /\ ret = "none"
    /\ old_tree = None
    /\ new_tree = None
    /\ stream = <<>>
    /\ patches = <<>>
    /\ current_patch = <<>>
    /\ last_file = None
    /\ touched = <<>>
    /\ exp_result = Err("none")
    /\ expcommit = Some(OneFileBundle)
    /\ current_commit_oid \in IF repo.valid THEN {None, Some(1), Some(2)} ELSE {None}
    /\ base_commit = None
    /\ xml_string = <<>>
    /\ unreadable = {}
    /\ outcome = Running
    /\ emitted = <<>>
    /\ trace = <<>>
    /\ session \in Sessions
    /\ ChatIdle

NextChat ==
    \/ ProcessReview
    \/ StartConversation
    \/ InitialReview
    \/ SelectAction
    \/ ChatInput

SpecChat == InitChat /\ [][NextChat]_vars

(***************************************************************************)
(* Properties                                                              *)
(***************************************************************************)
Done == pc \in {"exit", "prompted"}
\* a resolver has returned a bundle and no other diff.print has begun since
Returned == pc # "print" /\ exp_result.ok
Bundle == exp_result.val
HasEvent(e) == \E i \in 1..Len(trace) : trace[i] = e
StagedTarget == EnabledGitArgs(args) = 0

\* the text the callback accumulated from the lines tagged with path p
RECURSIVE TextOf(_, _)
TextOf(lines, p) ==
    IF Len(lines) = 0 THEN <<>>
    ELSE (IF Head(lines).path = p THEN <<Decode(Head(lines))>> ELSE <<>>)
         \o TextOf(Tail(lines), p)

\* C1: whenever a resolver (staged_diffs, or diff_trees_to_expanded for the
\* commit, branch and pull-request targets) returns a bundle with patches
\* present, the number of patch strings equals the number of paths.
C1_PatchCountEqualsPathCount ==
    (exp_result.ok /\ IsSome(Bundle.diffs)) =>
        /\ IsSome(Bundle.sources)
        /\ Len(Unwrap(Bundle.diffs)) = Len(Unwrap(Bundle.sources))

\* C1 witness: a returned bundle with the patches of three files
C1_Witness ==
    /\ Returned
    /\ IsSome(Bundle.diffs)
    /\ Len(Unwrap(Bundle.diffs)) = 3
    /\ Len(emitted) > 3

\* C2: patches[i] is the accumulated text of the diff lines of paths[i], and
\* every diff block of get_xml_structure carries the text of the path it is
\* tagged with.
C2_PatchBelongsToItsPath ==
    /\ (Returned /\ IsSome(Bundle.diffs) /\ IsSome(Bundle.sources)) =>
          \A i \in 1..Len(Unwrap(Bundle.diffs)) :
              /\ i <= Len(Unwrap(Bundle.sources))
              /\ Unwrap(Bundle.diffs)[i] = TextOf(emitted, Unwrap(Bundle.sources)[i])
    /\ pc = "prompted" =>
          \A i \in 1..Len(xml_string) :
              xml_string[i].open = "<diff " =>
                  xml_string[i].body = TextOf(emitted, xml_string[i].path)

\* C3: every resolution failure (revision or branch not found, no base
\* branch, a failed pull-request resolution) ends the run with an error value
\* that names the failure: it is never replaced by the generic message or a
\* panic.
ResolutionFailures ==
    {"NotFound", "NoBaseBranch", "UnbornBranch"} \cup PrFailures
C3_FailuresAreReported ==
    \A i \in 1..Len(trace) :
        (Done /\ trace[i].res \in ResolutionFailures) =>
            outcome.kind = "err" /\ outcome.cause = trace[i].res

\* C4: a resolution that succeeds with zero touched paths is a valid outcome
\* that is not reported as an error.
C4_EmptyBundleIsNotAnError ==
    (Done /\ IsSome(expcommit) /\ IsEmpty(Unwrap(expcommit))) =>
        outcome.kind \notin {"err", "panic", "generic"}

\* C5: with no target given, an empty staged bundle is followed by the
\* resolution of Commit("HEAD"), whose bundle is the one handed to the review;
\* a non-empty staged bundle is handed to the review without any fallback.
C5_StagedThenHead ==
    /\ (Done /\ HasEvent(Event("staged_result", "empty"))) =>
          /\ HasEvent(Event("fallback", "HEAD"))
          /\ outcome.kind # "err" =>
                /\ ret = "fallback_ret"
                /\ expcommit = Some(Bundle)
    /\ (Done /\ HasEvent(Event("staged_result", "nonempty"))) =>
          /\ ~HasEvent(Event("fallback", "HEAD"))
          /\ fn = "staged_diffs"
          /\ expcommit = Some(Bundle)
          /\ outcome.kind \in {"prompt", "panic"}

\* C6: in a repository with no commits and an empty index the staged bundle
\* is empty, the fallback resolves "HEAD", that fails with NotFound, and the
\* run ends with that error.
NoCommitsEmptyIndex ==
    /\ StagedTarget
    /\ repo.valid /\ repo.index_ok
    /\ repo.ncommits = 0 /\ repo.head = 0
    /\ repo.index = EmptyTree
C6_EmptyRepositoryReportsNotFound ==
    NoCommitsEmptyIndex =>
        /\ pc = "staged_ret" => exp_result.ok /\ IsEmpty(Bundle)
        /\ pc \notin {"gate", "process_review", "prompted", "fallback_ret"}
        /\ Done =>
              /\ trace = <<Event("staged_diffs", "called"),
                           Event("set_current_dir", "workdir"),
                           Event("staged_result", "empty"),
                           Event("fallback", "HEAD"),
                           Event("get_oid", "NotFound")>>
              /\ outcome.kind = "err"
              /\ outcome.cause = "NotFound"

\* C6 witness: the run on the empty repository has ended
C6_Witness == NoCommitsEmptyIndex /\ Done /\ HasEvent(Event("fallback", "HEAD"))

\* C7: with an unborn HEAD and files in the index, the staged review
\* succeeds: every staged file is in the bundle and the review gets it.
StagedFiles == {p \in Paths : repo.index[p] # 0}
C7_UnbornHeadStagedReview ==
    (Done /\ StagedTarget /\ repo.valid /\ repo.index_ok /\ repo.head = 0
          /\ \E p \in StagedFiles : ~Contains(PathStr(p), CargoLock)) =>
        /\ outcome.kind = "prompt"
        /\ IsSome(expcommit)
        /\ SourcePaths(Unwrap(expcommit)) =
              {p \in StagedFiles : ~Contains(PathStr(p), CargoLock)}

\* C8: Branch resolution against Main without "main" and "master" fails with
\* a NoBaseBranch error value returned to the caller.
NoBaseBranchCase ==
    /\ EnabledGitArgs(args) = 1
    /\ IsSome(args.branch)
    /\ UsedBranchMode = "Main"
    /\ repo.valid
    /\ FindBranch(repo, Unwrap(args.branch)).ok
    /\ repo.branches["main"] = 0
    /\ repo.branches["master"] = 0
C8_NoBaseBranchIsAnErrorValue ==
    (NoBaseBranchCase /\ pc \notin {"main", "git_review"}) =>
        /\ exp_result = Err("NoBaseBranch")
        /\ outcome.kind # "panic"

\* C9: against Main the base is the tip of "main" whenever "main" exists,
\* and the tip of "master" only when "main" does not exist.
C9_MainWinsOverMaster ==
    (IsSome(base_commit) /\ UsedBranchMode = "Main") =>
        IF repo.branches["main"] # 0
        THEN Unwrap(base_commit) = repo.branches["main"]
        ELSE /\ repo.branches["master"] # 0
             /\ Unwrap(base_commit) = repo.branches["master"]

\* C9 witness: both exist at different commits and a base has been chosen
C9_Witness ==
    /\ IsSome(base_commit)
    /\ UsedBranchMode = "Main"
    /\ repo.branches["main"] # 0
    /\ repo.branches["master"] # 0
    /\ repo.branches["main"] # repo.branches["master"]

\* C10: the path list of a bundle has no duplicate, and each of its paths is
\* the path of a diff line that the callback received.
C10_PathsDistinctAndEmitted ==
    (Returned /\ IsSome(Bundle.sources)) =>
        LET paths == Unwrap(Bundle.sources)
        IN /\ \A i, j \in 1..Len(paths) : i # j => paths[i] # paths[j]
           /\ \A i \in 1..Len(paths) :
                 \E k \in 1..Len(emitted) : emitted[k].path = paths[i]

\* C10 witness: a bundle of several paths whose files had several lines each
C10_Witness ==
    /\ Returned
    /\ IsSome(Bundle.sources)
    /\ Len(Unwrap(Bundle.sources)) >= 2
    /\ Len(emitted) > 2 * Len(Unwrap(Bundle.sources))

\* the position of the first line of path p in the emitted diff stream
FirstTouch(p) ==
    CHOOSE k \in 1..Len(emitted) :
        /\ emitted[k].path = p
        /\ \A j \in 1..(k - 1) : emitted[j].path # p
EmittedPaths == {emitted[k].path : k \in 1..Len(emitted)}
BlocksOf(tag) == SelectSeq(xml_string, LAMBDA b : b.open = tag)
\* the blocks follow the order in which their paths were first touched
InFirstTouchOrder(blocks) ==
    \A i, j \in 1..Len(blocks) :
        i < j => /\ blocks[i].path \in EmittedPaths
                 /\ blocks[j].path \in EmittedPaths
                 /\ FirstTouch(blocks[i].path) < FirstTouch(blocks[j].path)

\* C11: in the text get_xml_structure returns, the diff blocks and the source
\* blocks each appear in the order in which their files were first touched in
\* the diff stream.
C11_BlocksInFirstTouchOrder ==
    pc = "prompted" =>
        /\ InFirstTouchOrder(BlocksOf("<diff "))
        /\ InFirstTouchOrder(BlocksOf("<source "))

IsLockFile(p) == Contains(PathStr(p), CargoLock)
StagedReturned == Returned /\ fn = "staged_diffs"
PatchesOf(ec) == IF IsSome(ec.diffs) THEN Unwrap(ec.diffs) ELSE <<>>
SourcesOf(ec) == IF IsSome(ec.sources) THEN Unwrap(ec.sources) ELSE <<>>

\* C12: the bundle staged_diffs returns holds neither the path of Cargo.lock
\* nor the patch accumulated from its diff lines, and every other touched
\* file keeps its path and, where patches are reported, its own patch.
C12_LockFileFilteredOut ==
    StagedReturned =>
        /\ \A p \in SourcePaths(Bundle) : ~IsLockFile(p)
        /\ \A p \in EmittedPaths :
              IsLockFile(p) =>
                  \A i \in 1..Len(PatchesOf(Bundle)) :
                      PatchesOf(Bundle)[i] # TextOf(emitted, p)
        /\ \A p \in EmittedPaths :
              ~IsLockFile(p) =>
                  /\ p \in SourcePaths(Bundle)
                  /\ rvconfig.diff_profile.report_diffs =>
                        \E i \in 1..Len(PatchesOf(Bundle)) :
                            /\ SourcesOf(Bundle)[i] = p
                            /\ PatchesOf(Bundle)[i] = TextOf(emitted, p)

SerializerPanics == {"Sources are missing", "Diffs are missing", "index out of bounds"}

\* C13: get_xml_structure always succeeds: for every ExpandedCommit a resolver
\* returns, also one whose sources or diffs are None, and every DiffProfile,
\* it returns a string and does not panic.
C13_XmlStructureNeverPanics ==
    /\ pc = "process_review" =>
          \A failing \in SUBSET SourcePaths(Unwrap(expcommit)) :
              XmlStructure(Unwrap(expcommit), rvconfig.diff_profile, failing).ok
    /\ ~(outcome.kind = "panic" /\ outcome.msg \in SerializerPanics)

\* get_xml_structure was called on the resolved bundle and has ended
Rendered ==
    /\ IsSome(expcommit)
    /\ \/ pc = "prompted"
       \/ pc = "exit" /\ outcome.kind = "panic"
ReviewedBundle == Unwrap(expcommit)

\* C14: get_xml_structure emits one diff block per patch exactly when
\* report_diffs is set and one source block per path of the bundle exactly
\* when report_sources is set; the bundle lists every touched path (every
\* path but Cargo.lock for the staged target) also when the patches are
\* suppressed, and each of them gets its source block.
C14_BlocksFollowDiffProfile ==
    /\ StagedReturned =>
          SourcePaths(Bundle) = {p \in EmittedPaths : ~IsLockFile(p)}
    /\ Rendered =>
        LET dp == rvconfig.diff_profile
            diff_blocks == BlocksOf("<diff ")
            source_blocks == BlocksOf("<source ")
        IN /\ Len(diff_blocks) =
                 IF dp.report_diffs THEN Len(PatchesOf(ReviewedBundle)) ELSE 0
           /\ \A i \in 1..Len(diff_blocks) :
                 diff_blocks[i].body = PatchesOf(ReviewedBundle)[i]
           /\ Len(source_blocks) =
                 IF dp.report_sources /\ pc = "prompted"
                 THEN Len(SourcesOf(ReviewedBundle)) ELSE 0
           /\ \A i \in 1..Len(source_blocks) :
                 source_blocks[i].path = SourcesOf(ReviewedBundle)[i]
           /\ SourcePaths(ReviewedBundle) =
                 {p \in EmittedPaths : fn = "staged_diffs" => ~IsLockFile(p)}

\* C14 witness: a staged review with the patches suppressed renders the source
\* blocks of two touched files
C14_Witness ==
    /\ pc = "prompted"
    /\ fn = "staged_diffs"
    /\ ~rvconfig.diff_profile.report_diffs
    /\ rvconfig.diff_profile.report_sources
    /\ ~IsSome(ReviewedBundle.diffs)
    /\ Len(BlocksOf("<source ")) = 2
    /\ Cardinality(EmittedPaths) >= 2

\* C15: when fs::read fails on a path, get_xml_structure still returns: the
\* source block of that path holds "[source unavailable: <error>]" and every
\* other path of the bundle still has its source block with the file's text.
C15_UnreadableSourceIsAPlaceholder ==
    /\ unreadable # {} => pc = "prompted"
    /\ (pc = "prompted" /\ rvconfig.diff_profile.report_sources) =>
          LET source_blocks == BlocksOf("<source ")
          IN \A p \in SourcePaths(ReviewedBundle) :
                \E i \in 1..Len(source_blocks) :
                    /\ source_blocks[i].path = p
                    /\ source_blocks[i].close = "</source>"
                    /\ source_blocks[i].body =
                          IF p \in unreadable
                          THEN << <<"[source unavailable: err]", p, 0>> >>
                          ELSE << <<"file", p, 0>> >>

\* C15 witness: the first path of the bundle could not be read, a later one
\* could, and the review went on to the prompt
C15_Witness ==
    /\ pc = "prompted"
    /\ \E i, j \in 1..Len(SourcesOf(ReviewedBundle)) :
          /\ i < j
          /\ SourcesOf(ReviewedBundle)[i] \in unreadable
          /\ SourcesOf(ReviewedBundle)[j] \notin unreadable

BothDisabled ==
    /\ ~rvconfig.diff_profile.report_diffs
    /\ ~rvconfig.diff_profile.report_sources

\* C16 as stated: get_xml_structure called with report_diffs and
\* report_sources both false fails with an error; it never returns an empty
\* render that the review then uses as its prompt.
C16_BothDisabledIsAnError ==
    (Rendered /\ BothDisabled) => (pc = "exit" /\ xml_string = <<>>)

\* C16 amended: get_xml_structure called on a bundle that has paths, with
\* report_diffs and report_sources both false, does not fail: it returns the
\* empty string (no diff block, no source block) and the review goes on.
C16_BothDisabledRendersNothing ==
    (Rendered /\ BothDisabled /\ ~IsEmpty(ReviewedBundle)) =>
        /\ pc = "prompted"
        /\ outcome = Prompted
        /\ xml_string = <<>>

\* C16 witness: a review of two touched files reached the prompt with both
\* report flags off
C16_Witness ==
    /\ pc = "prompted"
    /\ BothDisabled
    /\ Len(SourcesOf(ReviewedBundle)) = 2
    /\ xml_string = <<>>

BothEnabled ==
    /\ rvconfig.diff_profile.report_diffs
    /\ rvconfig.diff_profile.report_sources

\* C17: with report_diffs and report_sources both set, the render holds one
\* block per patch opened by "<diff " and closed by "</diff>", one block per
\* path opened by "<source " and closed by "</source>", nothing else, and
\* every diff block comes before every source block.
C17_DiffBlocksThenSourceBlocks ==
    (pc = "prompted" /\ BothEnabled) =>
        LET n == Len(PatchesOf(ReviewedBundle))
            m == Len(SourcesOf(ReviewedBundle))
        IN /\ Len(xml_string) = n + m
           /\ \A i \in 1..Len(xml_string) :
                 IF i <= n
                 THEN /\ xml_string[i].open = "<diff "
                      /\ xml_string[i].close = "</diff>"
                      /\ xml_string[i].body = PatchesOf(ReviewedBundle)[i]
                 ELSE /\ xml_string[i].open = "<source "
                      /\ xml_string[i].close = "</source>"
                      /\ xml_string[i].path = SourcesOf(ReviewedBundle)[i - n]

\* C17 witness: a render with the diff blocks and the source blocks of three
\* files
C17_Witness ==
    /\ pc = "prompted"
    /\ BothEnabled
    /\ Len(BlocksOf("<diff ")) = 3
    /\ Len(BlocksOf("<source ")) = 3

\* what a diff line has to contribute to its patch
Contribution(line) ==
    IF line.utf8 THEN line.text ELSE <<"<non-utf8 N bytes>", <<>>, line.len>>
Contributions(lines) == [k \in 1..Len(lines) |-> Contribution(lines[k])]

\* C18: a diff line whose content is not valid UTF-8 does not stop the
\* reassembly; it contributes "<non-utf8 N bytes>", N the byte length of its
\* content, to the patch of its file, and no line of the stream is missing
\* from the patches.
C18_NonUtf8LinesBecomePlaceholders ==
    /\ Flatten(patches) \o current_patch = Contributions(emitted)
    /\ (pc # "print" /\ emitted # <<>>) =>
          /\ exp_result.ok
          /\ \A p \in EmittedPaths :
                \E i \in 1..Len(patches) :
                    patches[i] =
                        Contributions(SelectSeq(emitted, LAMBDA l : l.path = p))

\* C18 witness: a diff of two files with a non-UTF-8 line has been reassembled
C18_Witness ==
    /\ pc # "print"
    /\ exp_result.ok
    /\ Len(patches) = 2
    /\ \E k \in 1..Len(emitted) : ~emitted[k].utf8 /\ emitted[k].len = 3

\* C19: a diff of a tree against itself yields the empty bundle: no line is
\* emitted, no path is recorded and no patch is kept.
C19_SameTreeGivesEmptyBundle ==
    (Returned /\ fn # "none" /\ old_tree = new_tree) =>
        /\ emitted = <<>>
        /\ Bundle = [diffs |-> None, sources |-> None]
        /\ IsEmpty(Bundle)

\* C19 witness: diff_trees_to_expanded has returned for two equal trees that
\* hold a file
C19_Witness ==
    /\ Returned
    /\ fn = "diff_trees_to_expanded"
    /\ IsSome(old_tree)
    /\ old_tree = new_tree
    /\ \E p \in Paths : Unwrap(new_tree)[p] # 0

\* the files a tree holds
FilesOf(tree) == {p \in Paths : tree[p] # 0}
\* the patch of a file that is added with content version v
AddedPatch(p, v) ==
    << <<"F", p, 0>>, <<"H", p, 0>>, Contribution(FileLine(p, "+", v)) >>

\* C20: diff_trees_to_expanded with no old tree and a new tree holding the
\* files a and b returns a bundle whose path set is exactly {a, b}; every line
\* of the diff is a header or an added line, and for each file the bundle
\* holds the patch made of its headers and its added content only.
C20_AbsentOldTreeAddsEveryFile ==
    (Returned /\ fn = "diff_trees_to_expanded" /\ old_tree = None) =>
        LET tree == Unwrap(new_tree)
        IN /\ SourcePaths(Bundle) = FilesOf(tree)
           /\ Len(SourcesOf(Bundle)) = Cardinality(FilesOf(tree))
           /\ Len(PatchesOf(Bundle)) = Cardinality(FilesOf(tree))
           /\ \A k \in 1..Len(emitted) : emitted[k].origin \in {"F", "H", "+"}
           /\ \A p \in FilesOf(tree) :
                 \E i \in 1..Len(PatchesOf(Bundle)) :
                     PatchesOf(Bundle)[i] = AddedPatch(p, tree[p])

\* C20 witness: the root commit, which has no parent tree, adds two files
C20_Witness ==
    /\ Returned
    /\ fn = "diff_trees_to_expanded"
    /\ old_tree = None
    /\ Cardinality(FilesOf(Unwrap(new_tree))) = 2
    /\ Len(PatchesOf(Bundle)) = 2

\* the selectors given on the command line (main.rs counts them itself)
SelectorCount ==
    (IF IsSome(args.commit) THEN 1 ELSE 0) + (IF IsSome(args.branch) THEN 1 ELSE 0)
        + (IF IsSome(args.pr) THEN 1 ELSE 0)
\* the first thing each strategy of git_review does
FirstOpOf(a) ==
    IF IsSome(a.commit) THEN "get_oid"
    ELSE IF IsSome(a.branch) THEN "expanded_from_branch"
    ELSE IF IsSome(a.pr) THEN "gh --version"
    ELSE "staged_diffs"
\* the operations that only one strategy performs
PrOps == {"gh --version", "gh pr view", "cat-file base", "git fetch base",
          "cat-file head", "git fetch head", "expanded_between_commits",
          "expanded_commit_from_pr"}
StagedOps == {"staged_diffs", "set_current_dir", "staged_result", "fallback"}
BranchOps == {"expanded_from_branch"}
OwnOps(a) ==
    IF IsSome(a.commit) THEN {}
    ELSE IF IsSome(a.branch) THEN BranchOps
    ELSE IF IsSome(a.pr) THEN PrOps
    ELSE StagedOps

\* C21: with more than one of --commit, --branch, --pr the program prints the
\* usage error and neither resolves nor reviews anything; with none the
\* staged edits are resolved, and with exactly one that selector's strategy
\* is the one git_review runs.
C21_OneTargetSelector ==
    /\ (SelectorCount > 1 /\ pc # "main") =>
          /\ pc = "exit"
          /\ outcome = UsageError
          /\ trace = <<>>
          /\ fn = "none"
          /\ expcommit = None
          /\ xml_string = <<>>
    /\ (SelectorCount <= 1 /\ pc \notin {"main", "git_review"}) =>
          /\ outcome # UsageError
          /\ Len(trace) > 0
          /\ trace[1].op = FirstOpOf(args)
          /\ \A i \in 1..Len(trace) :
                trace[i].op \in (PrOps \cup StagedOps \cup BranchOps) =>
                    trace[i].op \in OwnOps(args)

\* C21 witness: a run with --branch and --pr has ended with the usage error
C21_Witness ==
    /\ pc = "exit"
    /\ IsSome(args.branch)
    /\ IsSome(args.pr)
    /\ ~IsSome(args.commit)
    /\ outcome = UsageError

\* the maximal contiguous runs of lines that share a path, in stream order
RECURSIVE RunsOf(_)
RunsOf(lines) ==
    IF Len(lines) = 0 THEN <<>>
    ELSE LET rest == RunsOf(Tail(lines))
         IN IF Len(rest) > 0 /\ Head(rest)[1].path = Head(lines).path
            THEN <<(<<Head(lines)>> \o Head(rest))>> \o Tail(rest)
            ELSE <<(<<Head(lines)>>)>> \o rest

\* C22: the path of a patch never changes while it is accumulated: the buffer
\* holds the lines of the current run only, all of the tracked path, and the
\* patches are, in order, the contents of the maximal contiguous runs of
\* lines sharing a path (flushed at the first line of another path, and at
\* the end of the stream).
C22_PatchesAreMaximalRuns ==
    LET runs == RunsOf(emitted)
    IN /\ pc = "print" =>
             /\ Len(patches) + (IF Len(current_patch) > 0 THEN 1 ELSE 0) = Len(runs)
             /\ \A i \in 1..Len(patches) : patches[i] = Contributions(runs[i])
             /\ Len(current_patch) > 0 =>
                   /\ current_patch = Contributions(runs[Len(runs)])
                   /\ \A k \in 1..Len(runs[Len(runs)]) :
                         Some(runs[Len(runs)][k].path) = last_file
       /\ (pc # "print" /\ fn # "none") =>
             /\ Len(patches) = Len(runs)
             /\ \A i \in 1..Len(patches) : patches[i] = Contributions(runs[i])
             /\ current_patch = <<>>

\* C22 witness: three runs of lines have been reassembled into three patches
C22_Witness ==
    /\ pc # "print"
    /\ Len(RunsOf(emitted)) = 3
    /\ Len(patches) = 3
    /\ \E i \in 1..3 : Len(patches[i]) = 4

\* expanded_from_commit has been called for --commit and its diff has ended
CommitResolved ==
    /\ IsSome(args.commit)
    /\ fn = "diff_trees_to_expanded"
    /\ pc # "print"
\* the commits of the modelled history: 1 is the root, 2 its child
IsRoot(c) == c = 1

\* C23: the commit target diffs the tree of the commit's first parent (old)
\* against the commit's own tree (new); for a root commit old is None, the
\* resolution returns Ok and every file of the commit comes out as added.
C23_CommitDiffsParentAgainstCommit ==
    CommitResolved =>
        LET c == Unwrap(current_commit_oid)
        IN /\ new_tree = Some(repo.tree[c])
           /\ old_tree = IF IsRoot(c) THEN None ELSE Some(repo.tree[c - 1])
           /\ exp_result.ok
           /\ IsRoot(c) =>
                 /\ SourcePaths(Bundle) = FilesOf(repo.tree[c])
                 /\ \A k \in 1..Len(emitted) : emitted[k].origin # "-"
                 /\ \A p \in FilesOf(repo.tree[c]) :
                       \E k \in 1..Len(emitted) :
                           /\ emitted[k].path = p
                           /\ emitted[k].origin = "+"

\* C23 witness: a root commit with two files has been resolved
C23_Witness ==
    /\ CommitResolved
    /\ exp_result.ok
    /\ IsRoot(Unwrap(current_commit_oid))
    /\ old_tree = None
    /\ Cardinality(SourcePaths(Bundle)) = 2

\* expanded_from_branch has returned to git_review
BranchResolved == IsSome(args.branch) /\ pc = "branch_ret"
\* the mode in force: --branch-mode, else the configured default
AgainstMode ==
    IF args.branch_mode # None THEN args.branch_mode[1]
    ELSE rvconfig.default_branch_mode
\* the commit the branch is compared with
ExpectedBase ==
    IF AgainstMode = "Current" THEN repo.head
    ELSE IF repo.branches["main"] # 0 THEN repo.branches["main"]
    ELSE repo.branches["master"]
BranchExists ==
    /\ repo.valid
    /\ args.branch[1] \in BranchNames
    /\ repo.branches[args.branch[1]] # 0

\* C24: the branch target diffs from the base to the branch tip: new is the
\* tree of the tip of the local branch, old is the tree of HEAD for
\* BranchAgainst::Current and of main (else master) for BranchAgainst::Main;
\* with BranchAgainst::Current and an unborn HEAD expanded_from_branch
\* returns an error and computes no diff.
C24_BranchDiffsBaseAgainstTip ==
    BranchResolved =>
        /\ exp_result.ok =>
              /\ BranchExists
              /\ ExpectedBase # 0
              /\ fn = "diff_trees_to_expanded"
              /\ new_tree = Some(repo.tree[repo.branches[args.branch[1]]])
              /\ old_tree = Some(repo.tree[ExpectedBase])
        /\ (BranchExists /\ AgainstMode = "Current" /\ repo.head = 0) =>
              /\ ~exp_result.ok
              /\ fn = "none"
              /\ emitted = <<>>

\* C24 witness: a branch has been compared with main, whose tree differs from
\* the tree of HEAD and from the tree of the branch tip
C24_Witness ==
    /\ BranchResolved
    /\ exp_result.ok
    /\ AgainstMode = "Main"
    /\ repo.head # 0
    /\ old_tree # Some(repo.tree[repo.head])
    /\ old_tree # new_tree

\* the commands of the pull-request resolver that were run, in order
PrTrace == SelectSeq(trace, LAMBDA e : e.op \in PrOps)
\* the place of a command in the order the resolver follows
Rank(op) ==
    CASE op = "gh --version" -> 1
      [] op = "gh pr view" -> 2
      [] op \in {"cat-file base", "git fetch base"} -> 3
      [] op \in {"cat-file head", "git fetch head"} -> 4
      [] op = "expanded_between_commits" -> 5
      [] OTHER -> 6
PrResolved == SelectorCount = 1 /\ IsSome(args.pr) /\ pc \notin {"main", "git_review"}
\* a fetch that failed, or a commit still missing after its fetch
FetchFailedAt(t, i) ==
    \/ t[i].op \in {"git fetch base", "git fetch head"} /\ t[i].res = "failed"
    \/ /\ i > 1
       /\ t[i].res = "missing"
       /\ t[i - 1].op \in {"git fetch base", "git fetch head"}

\* C25: the pull-request resolver checks gh, fetches the metadata, makes sure
\* of the base commit, then of the head commit, then diffs base against head;
\* a commit is fetched exactly when the check before it found it missing; and
\* when a command fails or the commit is still missing after its fetch the
\* resolution ends with an error and no diff is computed.
C25_PrStepsInOrder ==
    PrResolved =>
        LET t == PrTrace
        IN /\ Len(t) > 0 /\ t[1].op = "gh --version"
           /\ \A i, j \in 1..Len(t) :
                 i < j => /\ Rank(t[i].op) <= Rank(t[j].op)
                          /\ t[i].op = t[j].op =>
                                /\ t[i].op \in {"cat-file base", "cat-file head"}
                                /\ j = i + 2
           /\ \A i \in 1..Len(t) : \A which \in {"base", "head"} :
                 /\ t[i].op = "git fetch " \o which =>
                       /\ i > 2
                       /\ t[i - 1] = Event("cat-file " \o which, "missing")
                       /\ t[i - 2].op # "git fetch " \o which
                 /\ (t[i] = Event("cat-file " \o which, "missing")
                        /\ t[i - 1].op # "git fetch " \o which) =>
                       /\ i < Len(t)
                       /\ t[i + 1].op = "git fetch " \o which
           /\ (\E i \in 1..Len(t) : t[i].res = "failed" \/ FetchFailedAt(t, i)) =>
                 /\ pc = "exit"
                 /\ outcome.kind = "err"
                 /\ fn = "none"
                 /\ emitted = <<>>
                 /\ \A i \in 1..Len(t) : t[i].op # "expanded_between_commits"
           /\ (fn # "none") <=>
                 (\E i \in 1..Len(t) : t[i].op = "expanded_between_commits")
           /\ fn # "none" =>
                 /\ \E i \in 1..Len(t) : t[i] = Event("gh pr view", "ok")
                 /\ \E i \in 1..Len(t) : t[i] = Event("cat-file base", "present")
                 /\ \E i \in 1..Len(t) : t[i] = Event("cat-file head", "present")
                 /\ old_tree = Some(repo.tree[world.base_oid])
                 /\ new_tree = Some(repo.tree[world.head_oid])

\* C25 witness: the base commit was fetched, the head commit was already
\* there, and the diff of two different commits has been computed
C25_Witness ==
    /\ PrResolved
    /\ pc = "pr_ret"
    /\ HasEvent(Event("git fetch base", "ok"))
    /\ \A i \in 1..Len(trace) : trace[i].op # "git fetch head"
    /\ world.base_oid # world.head_oid
    /\ old_tree # new_tree

\* the calls of env::set_current_dir made so far
ChdirCount == Len(SelectSeq(trace, LAMBDA e : e.op = "set_current_dir"))

\* C26: in a run the working directory is set to the root of the work tree
\* only by the resolution of the staged target, and at most once; the commit,
\* branch and pull-request targets leave it where the run started.
C26_WorkdirChangedOnlyByStaged ==
    /\ ChdirCount <= 1
    /\ ChdirCount = 1 => (SelectorCount = 0 /\ cwd = "root")
    /\ ChdirCount = 0 => cwd = world.start_dir
    /\ SelectorCount >= 1 => (ChdirCount = 0 /\ cwd = world.start_dir)

\* C26 witness: started below the root, the staged target has moved the
\* process to the root, and the fallback to HEAD has run after it
C26_Witness ==
    /\ world.start_dir = "subdir"
    /\ cwd = "root"
    /\ ChdirCount = 1
    /\ HasEvent(Event("fallback", "HEAD"))
    /\ fn = "diff_trees_to_expanded"
    /\ pc = "prompted"

StagedFailed == HasEvent(Event("staged_diffs", "failed")) /\ pc # "staged_ret"

\* C28: when staged_diffs returns an error, git_review does not return it: it
\* goes on as for an empty staged bundle and resolves the commit HEAD, so that
\* the run ends with the review of HEAD or with the failure of that
\* resolution, and the staged failure is not in the outcome.
C28_StagedErrorFallsBackToHead ==
    StagedFailed =>
        /\ ~exp_result.ok \/ fn = "diff_trees_to_expanded"
        /\ Len(trace) >= 4
        /\ trace[1] = Event("staged_diffs", "failed")
        /\ trace[2] = Event("staged_result", "failed")
        /\ trace[3] = Event("fallback", "HEAD")
        /\ trace[4].op = "get_oid"
        /\ ChdirCount = 0
        /\ trace[4].res = "ok" =>
              /\ fn = "diff_trees_to_expanded"
              /\ ret = "fallback_ret"
              /\ current_commit_oid = Some(repo.head)
              /\ new_tree = Some(repo.tree[repo.head])
        /\ Done =>
              /\ outcome.cause # "IndexUnreadable"
              /\ outcome.kind = "err" =>
                    /\ outcome.msg = "Failed to get commit OID"
                    /\ outcome.cause = trace[4].res
              /\ outcome.kind \in {"err", "prompt", "panic"}

\* C28 witness: the index could not be read and the run ended with the review
\* of the commit HEAD
C28_Witness ==
    /\ StagedFailed
    /\ repo.valid
    /\ ~repo.index_ok
    /\ pc = "prompted"
    /\ fn = "diff_trees_to_expanded"
    /\ expcommit = Some(Bundle)

(***************************************************************************)
(* The chat loops                                                          *)
(***************************************************************************)
\* the program is inside one of the loops of process_review, or past its
\* conversation
InConversation == pc \in {"menu", "menu_select", "menu_chat", "chat", "chat_input", "single"}
\* a step that read a line in a chat loop; the line is input_string'
ReadLine ==
    /\ pc \in {"menu_chat", "chat_input"}
    /\ turns' = turns + 1
    /\ outcome'.kind # "process::exit"
\* the commands of the chat, by their first word
IsLoadCommand(line) == Len(line) >= 1 /\ line[1] \in {"/load", "/read-only"}
IsQuitCommand(line) == Len(line) >= 1 /\ line[1] \in {"/quit", "/exit"}
\* a step that sent the request for the initial review
InitialRequestSent ==
    /\ pc \in {"menu", "chat", "single"}
    /\ requests' # requests
\* the requests sent for the review prompt alone
InitialRequests == {i \in 1..Len(requests) : requests[i] = 1}

\* what one line of the chat does to the history and to the requests
ChatLineEffect ==
    LET line == input_string'
    IN IF IsBlank(line) \/ IsLoadCommand(line) \/ IsQuitCommand(line)
       THEN /\ requests' = requests
            /\ IsQuitCommand(line) => pc' \notin {"menu_chat", "chat", "chat_input"}
       ELSE /\ requests' = Append(requests, Len(all_messages) + 1)
            /\ \/ all_messages' = all_messages \o <<UserInput(line), Response>>
               \/ /\ all_messages' = Append(all_messages, UserInput(line))
                  /\ pc' = "exit"
                  /\ outcome'.kind = "err"

\* C29: in the chat loops the history always begins with the review prompt;
\* an empty line, a /load or /read-only command and /quit or /exit send no
\* request, and /quit or /exit leaves the chat loop; every other line sends
\* exactly one request and appends one user message followed by the
\* assistant's answer (the answer is missing only when the request failed,
\* which ends the run with that error); the request for the initial review
\* is sent only while the history holds the review prompt alone, and once.
C29_ChatLoopProtocol ==
    /\ [](InConversation =>
            /\ Len(all_messages) >= 1
            /\ all_messages[1] = ReviewPrompt(xml_string)
            /\ Cardinality(InitialRequests) <= 1
            /\ pc \in {"menu_select", "menu_chat", "chat_input"} =>
                  (requests # <<>> /\ requests[1] = 1))
    /\ [][/\ ReadLine => ChatLineEffect
          /\ InitialRequestSent => (Len(all_messages) = 1 /\ requests = <<>>)]_vars

(***************************************************************************)
(* The action menu                                                         *)
(***************************************************************************)
CommitCommands == {"git commit --fixup", "git commit -m"}
\* a step that selected an entry of the menu; the entry is action'
Selected(sel) ==
    /\ pc = "menu_select"
    /\ turns' = turns + 1
    /\ action' = sel
\* a step that ends the run from inside the menu loop
MenuLoopEnds ==
    /\ pc \in {"menu", "menu_select", "menu_chat"}
    /\ pc' = "exit"
\* every git commit follows a successful `git add .` of the same action
CommitsFollowAdd ==
    \A i \in 1..Len(commands) :
        commands[i].cmd \in CommitCommands =>
            /\ i > 1
            /\ commands[i - 1].cmd = "git add ."
            /\ commands[i - 1].status = "success"
            /\ commands[i - 1].action = commands[i].action
\* fixup and revert without a current commit, revert of a root commit
RunsNothing ==
    /\ (Selected("GitAddAndFixup") \/ Selected("GitRevertLast"))
         /\ ~IsSome(current_commit_oid) => commands' = commands
    /\ Selected("GitRevertLast") /\ IsSome(current_commit_oid)
         /\ ParentCount(Unwrap(current_commit_oid)) = 0 => commands' = commands
\* Quit was selected, or a `?` returned an error, or an unwrap() panicked
QuitOrError ==
    \/ Selected("Quit") /\ outcome' = Completed
    \/ outcome'.kind \in {"err", "panic"}

\* C30 as stated: commits only after a successful add of the same action,
\* no command without a current commit or without a parent, and the menu
\* loop ends only by Quit or by an error that propagates.
C30_MenuEndsByQuitOrError ==
    /\ []CommitsFollowAdd
    /\ [][RunsNothing /\ (MenuLoopEnds => QuitOrError)]_vars

\* C30: as above, and the run can also end inside the menu loop without
\* Quit and without an error: end of input in the chat mode entered from
\* the menu exits the process with status 0.
C30_MenuActionsAreGuarded ==
    /\ []CommitsFollowAdd
    /\ [][/\ RunsNothing
          /\ MenuLoopEnds =>
                \/ QuitOrError
                \/ pc = "menu_chat" /\ outcome' = Exited("0")]_vars

\* a fixup commit was made after its add, a revert of the root commit ran
\* nothing, and end of input in the chat mode ended the run
C30_Witness ==
    /\ pc = "exit"
    /\ outcome = Exited("0")
    /\ action = "EnterChatMode"
    /\ current_commit_oid = Some(1)
    /\ Len(commands) = 2
    /\ commands[2].cmd = "git commit --fixup"
    /\ turns = 3

=============================================================================
